---------------------------- MODULE Spec2Model ----------------------------
(***************************************************************************)
(* SARSA(0) agent of sarsa_zero/sarsa_zero_agent.py: the two annealing     *)
(* schedules, the epsilon-greedy selector, the update rule, the evaluation *)
(* loop (test) and the training loop (train).                              *)
(*                                                                         *)
(* Numbers.  The program computes in binary floating point.  A value v is  *)
(* held here as the integer v * 2^FracBits; a representable value has at   *)
(* most MantBits significant bits, and every arithmetic operation rounds   *)
(* its exact result to the nearest representable value, ties to even       *)
(* (gradual underflow at 2^-FracBits, no overflow within the bounds).      *)
(***************************************************************************)
EXTENDS Integers, Sequences, FiniteSets, TLC

\* ------------------------------------------------------------- bounds
MantBits == 3
FracBits == 3
NumObs == 2
NumActions == 2
MaxHorizon == 3
MaxTotal == 2
MaxEpLen == 3
MaxInterval == 2
MaxTestEpisodes == 2
MaxTestEpLen == 6
MaxRoundEpLen == 1

VARIABLES
  pc,                  \* position of the running operation
  table,               \* the Q table object: stored estimates, writes, saves
  params,              \* the arguments train was called with
  observation_number,  \* train: observations made so far
  episode_number,      \* train: episode counter
  observation,         \* train: current observation of the learning episode
  action,              \* train: pending action of the learning episode
  epsilon,             \* train: last epsilon computed
  learning_rate,       \* train: last learning rate computed
  step_result,         \* train: the action given and the (reward, done) got in the step being processed
  learning_env,        \* the learning environment object
  testing_env,         \* the testing environment object
  tframe,              \* test: arguments and locals of the running call
  average_reward,      \* value returned by the last call of test
  hist,                \* history of the run (calls made so far)
  call                 \* the last call of a single operation and its outcome

vars == << pc, table, params, observation_number, episode_number, observation,
           action, epsilon, learning_rate, step_result, learning_env,
           testing_env, tframe, average_reward, hist, call >>

\* ------------------------------------------------- floating point
RECURSIVE Pow2(_)
Pow2(k) == IF k = 0 THEN 1 ELSE 2 * Pow2(k - 1)

Abs(x) == IF x < 0 THEN -x ELSE x

\* least k with floor(a / (d * 2^k)) < 2^MantBits: the exponent of a/d
RECURSIVE Exponent(_, _, _)
Exponent(a, d, k) ==
  IF a \div (d * Pow2(k)) < Pow2(MantBits) THEN k ELSE Exponent(a, d, k + 1)

\* a/d >= 0 rounded to a multiple of 2^k, nearest, ties to even
RoundAt(a, d, k) ==
  LET q == d * Pow2(k)
      m == a \div q
      r == a - m * q
      up == (2 * r > q) \/ (2 * r = q /\ m % 2 = 1)
  IN (IF up THEN m + 1 ELSE m) * Pow2(k)

\* a/d >= 0 rounded to MantBits significant bits, nearest, ties to even
RoundMag(a, d) ==
  CHOOSE v \in {RoundAt(a, d, k) : k \in {Exponent(a, d, 0)}} : TRUE

\* the rational n/d (d > 0) rounded to the nearest representable value
\* (the operands are bound as values, so each is evaluated once)
RoundQ(n, d) ==
  CHOOSE v \in {IF nn < 0 THEN -RoundMag(-nn, dd) ELSE RoundMag(nn, dd) :
                  nn \in {n}, dd \in {d}} : TRUE

Fl(x) == RoundQ(x, 1)
Representable(x) == Fl(x) = x

One == Pow2(FracBits)                  \* 1.0
FAdd(x, y) == RoundQ(x + y, 1)         \* x + y
FSub(x, y) == RoundQ(x - y, 1)         \* x - y
FMul(x, y) == RoundQ(x * y, One)       \* x * y
FDivInt(x, n) == RoundQ(x, n)          \* x / float(n)
FRatio(i, n) == RoundQ(i * One, n)     \* i / float(n), i and n integers

\* ------------------------------------------------------ input sets
Observations == 0 .. NumObs - 1
Actions == 0 .. NumActions - 1
Keys == Observations \X Actions
Rewards == {-One, Fl((3 * One) \div 8), One}
Rates == {0, Fl((3 * One) \div 8), One}
Discounts == {0, Fl((7 * One) \div 8), One}
QValues == {-One, Fl((5 * One) \div 8), One}
ScheduleValues == {0, 1, Fl((3 * One) \div 8), One, Fl((5 * One) \div 4)}

\* ------------------------------------------------------ the Q table
\* (sarsa_zero.models: get_q_value, update_q_value, save)
EmptyTable == [q |-> << >>, writes |-> 0, saves |-> 0]

get_q_value(t, obs, a) ==
  IF <<obs, a>> \in DOMAIN t.q
    THEN [found |-> TRUE, value |-> t.q[<<obs, a>>]]
    ELSE [found |-> FALSE, value |-> 0]      \* raises QValueNotFoundError

update_q_value(t, obs, a, v) ==
  [t EXCEPT !.q = (<<obs, a>> :> v) @@ t.q, !.writes = t.writes + 1]

save(t) == [t EXCEPT !.saves = t.saves + 1]

\* -------------------------------------------------------- schedules
get_epsilon(start_epsilon, end_epsilon, n, total_observations) ==
  LET training_progress_fraction == FRatio(n, total_observations)
  IN FSub(start_epsilon,
          FMul(FSub(start_epsilon, end_epsilon), training_progress_fraction))

\* the slip of subtracting in the wrong order: end - start for start - end
get_learning_rate_swapped(start_learning_rate, end_learning_rate, n, total_observations) ==
  LET training_progress_fraction == FRatio(n, total_observations)
  IN FSub(start_learning_rate,
          FMul(FSub(end_learning_rate, start_learning_rate),
               training_progress_fraction))

get_learning_rate(start_learning_rate, end_learning_rate, n, total_observations) ==
  LET training_progress_fraction == FRatio(n, total_observations)
  IN FSub(start_learning_rate,
          FMul(FSub(start_learning_rate, end_learning_rate),
               training_progress_fraction))


\* ------------------------------------------------- epsilon-greedy policy
\* lines 83-88: one lookup of the greedy branch, with its handler
lookup_or_zero(t, obs, a) ==
  LET r == get_q_value(t, obs, a)
  IN IF r.found THEN [raised |-> FALSE, value |-> r.value]
                ELSE [raised |-> FALSE, value |-> 0]

\* lines 80-88: the dictionary built by the loop over range(n)
q_values_for_this_observation(t, obs, n) ==
  [a \in 0 .. n - 1 |-> lookup_or_zero(t, obs, a)]

\* line 91: max(...) of a non-empty collection of numbers
SetMax(S) == CHOOSE x \in S : \A y \in S : y <= x

\* the slip of keeping only the first action that attains the maximum
first_action_with_max_q_value(t, obs, n) ==
  LET q == q_values_for_this_observation(t, obs, n)
      max_q_value == SetMax({q[a].value : a \in 0 .. n - 1})
      tied == {a \in 0 .. n - 1 : q[a].value = max_q_value}
  IN {a \in tied : \A b \in tied : a <= b}

\* lines 91-97
actions_with_max_q_value(t, obs, n) ==
  LET q == q_values_for_this_observation(t, obs, n)
      max_q_value == SetMax({q[a].value : a \in 0 .. n - 1})
  IN {a \in 0 .. n - 1 : q[a].value = max_q_value}

\* the slip of storing the assumed 0 for every estimate found missing
get_action_storing_zero(n, t, obs, eps) ==
  LET q == q_values_for_this_observation(t, obs, n)
      explore == IF eps > 0 THEN 0 .. n - 1 ELSE {}
      greedy == IF eps < One THEN actions_with_max_q_value(t, obs, n) ELSE {}
      missing == {a \in 0 .. n - 1 : <<obs, a>> \notin DOMAIN t.q}
  IN [raised |-> FALSE,
      actions |-> explore \cup greedy,
      table |-> IF eps < One
                  THEN [t EXCEPT !.q = [k \in {obs} \X missing |-> 0] @@ t.q]
                  ELSE t]

\* lines 76-101.  random.random() is in [0, 1): the test "< epsilon" can
\* succeed iff epsilon > 0 and can fail iff epsilon < 1.  sample() yields any
\* action of the space, random.choice any member of the list.  The outcome
\* is the set of actions the call may return, and whether it raised.
get_action(n, t, obs, eps) ==
  LET q == q_values_for_this_observation(t, obs, n)
      explore == IF eps > 0 THEN 0 .. n - 1 ELSE {}
      greedy == IF eps < One THEN actions_with_max_q_value(t, obs, n) ELSE {}
  IN [raised |-> eps < One /\ \E a \in 0 .. n - 1 : q[a].raised,
      actions |-> explore \cup greedy,
      table |-> t]

\* ------------------------------------------------------- SARSA(0) update
\* the slip of looking the next pair up on a terminal step too
next_q_value_ignoring_done(t, done, next_observation, next_action) ==
  LET r == get_q_value(t, next_observation, next_action)
  IN [raised |-> FALSE, found |-> r.found, value |-> r.value]

\* lines 125-130: the lookup of the next pair, with its handler
next_q_value(t, done, next_observation, next_action) ==
  IF done THEN [raised |-> FALSE, found |-> FALSE, value |-> 0]
  ELSE LET r == get_q_value(t, next_observation, next_action)
       IN [raised |-> FALSE, found |-> r.found, value |-> r.value]

\* the slip of leaving the lookup of the current pair without a handler
current_q_value_unhandled(t, obs, a) ==
  LET r == get_q_value(t, obs, a)
  IN [raised |-> ~r.found, found |-> r.found, value |-> r.value]

\* lines 134-138: the lookup of the current pair, with its handler
current_q_value(t, obs, a) ==
  LET r == get_q_value(t, obs, a)
  IN [raised |-> FALSE, found |-> r.found, value |-> r.value]

\* lines 123-130
td_target(t, discount_factor, reward, done, next_observation, next_action) ==
  LET nq == next_q_value(t, done, next_observation, next_action)
  IN IF nq.found THEN FAdd(reward, FMul(discount_factor, nq.value)) ELSE reward

\* lines 132-138
updated_q_value(t, discount_factor, lr, obs, a, reward, done, next_observation, next_action) ==
  LET target == td_target(t, discount_factor, reward, done,
                          next_observation, next_action)
      cq == current_q_value(t, obs, a)
  IN IF cq.found THEN FAdd(FMul(lr, target), FMul(cq.value, FSub(One, lr)))
                 ELSE FMul(lr, target)

\* the slip of storing the assumed 0 for an unknown next pair
update_table_storing_next(t, discount_factor, lr, obs, a, reward, done, next_observation, next_action) ==
  LET nq == next_q_value(t, done, next_observation, next_action)
      v == updated_q_value(t, discount_factor, lr, obs, a, reward, done,
                           next_observation, next_action)
      t1 == IF ~done /\ ~nq.found
              THEN update_q_value(t, next_observation, next_action, 0)
              ELSE t
  IN [raised |-> FALSE, table |-> update_q_value(t1, obs, a, v)]

\* lines 123-140: the table after the call, and whether the call raised
update_table(t, discount_factor, lr, obs, a, reward, done, next_observation, next_action) ==
  LET nq == next_q_value(t, done, next_observation, next_action)
      cq == current_q_value(t, obs, a)
      v == updated_q_value(t, discount_factor, lr, obs, a, reward, done,
                           next_observation, next_action)
  IN IF nq.raised \/ cq.raised
       THEN [raised |-> TRUE, table |-> t]
       ELSE [raised |-> FALSE, table |-> update_q_value(t, obs, a, v)]

\* --------------------------------------------------- environments
\* A Gym environment object (reset/step/close) as the loops see it: the
\* observation returned by reset or step, the reward and the done flag are
\* the environment's choice.  limit: an episode ends at the latest after
\* this many steps; rewards: the rewards the environment may give.
NewEnv(limit, rewards) ==
  [running |-> FALSE, t |-> 0, steps |-> 0, resets |-> 0, dones |-> 0,
   closed |-> FALSE, monitor |-> "none", limit |-> limit,
   rewards |-> rewards]

\* env.reset(): a new episode starts
EnvReset(env) ==
  [env EXCEPT !.running = TRUE, !.t = 0, !.resets = env.resets + 1]

\* the done flags step may return at this point of the episode
EnvDoneChoices(env) == IF env.t + 1 >= env.limit THEN {TRUE} ELSE BOOLEAN

\* env.step(action) having returned the flag done
EnvStep(env, done) ==
  [env EXCEPT !.t = IF done THEN 0 ELSE env.t + 1,
              !.steps = env.steps + 1,
              !.running = ~done,
              !.dones = IF done THEN env.dones + 1 ELSE env.dones]

\* env.close()
EnvClose(env) == [env EXCEPT !.closed = TRUE]

\* Monitor(env, ...): a recorder is put around the environment
MonitorWrap(env) == [env EXCEPT !.monitor = "open"]

\* close() on the recorder: by lines 348-350 it leaves the wrapped
\* environment open
MonitorClose(env) == [env EXCEPT !.monitor = "closed"]

\* ------------------------------------------- states outside a run
NoFrame ==
  [pos |-> "idle", total_number_of_episodes |-> 0, epsilon |-> 0,
   episode_number |-> 0, observation |-> 0, total_rewards |-> 0]
NoStep == [action |-> 0, reward |-> 0, done |-> FALSE]
NoHist ==
  [rounds |-> 0, eps_progress |-> -1, lr_progress |-> -1,
   exact_sum |-> 0, rounded |-> FALSE, pending |-> << >>]
NoCall == [op |-> "none"]

\* every table over the keys with estimates among QValues
AllTables ==
  {[q |-> f, writes |-> 0, saves |-> 0] :
     f \in UNION {[D -> QValues] : D \in SUBSET Keys}}

\* ------------------------------------------- single operations
\* One call of one operation on an arbitrary table with arbitrary inputs.
trainvars == << params, observation_number, episode_number, observation,
                action, epsilon, learning_rate, step_result, learning_env,
                testing_env, tframe, average_reward, hist >>

UnitInit ==
  /\ pc = "unit"
  /\ table \in AllTables
  /\ call = NoCall
  /\ params = << >>
  /\ observation_number = 0
  /\ episode_number = 1
  /\ observation = 0
  /\ action = 0
  /\ epsilon = 0
  /\ learning_rate = 0
  /\ step_result = NoStep
  /\ learning_env = NewEnv(MaxEpLen, Rewards)
  /\ testing_env = NewEnv(MaxEpLen, Rewards)
  /\ tframe = NoFrame
  /\ average_reward = 0
  /\ hist = NoHist

CallUpdateTable ==
  /\ pc = "unit" /\ call.op = "none"
  /\ \E g \in Discounts, lr \in Rates, obs \in Observations, a \in Actions,
        reward \in Rewards, done \in BOOLEAN,
        nobs \in Observations, nact \in Actions :
       LET r == update_table(table, g, lr, obs, a, reward, done, nobs, nact)
       IN /\ table' = r.table
          /\ call' = [op |-> "update_table", table0 |-> table,
                      discount_factor |-> g, learning_rate |-> lr,
                      observation |-> obs, action |-> a, reward |-> reward,
                      done |-> done, next_observation |-> nobs,
                      next_action |-> nact, raised |-> r.raised]
  /\ UNCHANGED << pc, trainvars >>

CallGetAction ==
  /\ pc = "unit" /\ call.op = "none"
  /\ \E obs \in Observations, eps \in Rates :
       LET r == get_action(NumActions, table, obs, eps)
       IN /\ table' = r.table
          /\ \/ /\ r.raised
                /\ call' = [op |-> "get_action", table0 |-> table,
                            observation |-> obs, epsilon |-> eps,
                            raised |-> TRUE, result |-> 0]
             \/ /\ ~r.raised
                /\ \E a \in r.actions :
                     call' = [op |-> "get_action", table0 |-> table,
                              observation |-> obs, epsilon |-> eps,
                              raised |-> FALSE, result |-> a]
  /\ UNCHANGED << pc, trainvars >>

CallSchedule ==
  /\ pc = "unit" /\ call.op = "none"
  /\ \E f \in {"get_epsilon", "get_learning_rate"},
        start \in ScheduleValues, end \in ScheduleValues,
        total \in 1 .. MaxHorizon :
       \E n \in 0 .. total :
         call' = [op |-> f, start |-> start, end |-> end, n |-> n,
                  total |-> total,
                  result |-> IF f = "get_epsilon"
                               THEN get_epsilon(start, end, n, total)
                               ELSE get_learning_rate(start, end, n, total)]
  /\ UNCHANGED << pc, table, trainvars >>

UnitNext == CallUpdateTable \/ CallGetAction \/ CallSchedule

SpecUnit == UnitInit /\ [][UnitNext]_vars

\* ------------------------------------------- claims on single operations
\* the stored estimate of a key in a table object, a missing one counted as 0
StoredOrZero(t, k) == IF k \in DOMAIN t.q THEN t.q[k] ELSE 0

CallKey == << call.observation, call.action >>
CallNextKey == << call.next_observation, call.next_action >>

\* C1: after update_table the value stored for (observation, action) is
\* a*target + (1-a)*old in the program's arithmetic, old being the value
\* stored before the call or 0 if absent, target = reward when done and
\* reward + g*next otherwise, next the value stored for (next observation,
\* next action) before the call or 0 if absent.
C1_UpdateRule ==
  call.op = "update_table" =>
    LET old == StoredOrZero(call.table0, CallKey)
        next == StoredOrZero(call.table0, CallNextKey)
        target == IF call.done THEN call.reward
                  ELSE FAdd(call.reward, FMul(call.discount_factor, next))
    IN /\ CallKey \in DOMAIN table.q
       /\ table.q[CallKey] =
            FAdd(FMul(call.learning_rate, target),
                 FMul(FSub(One, call.learning_rate), old))

\* a terminal update with learning rate 1 whose next pair has a stored
\* non-zero estimate: the reward alone is written
C1_Witness ==
  /\ call.op = "update_table"
  /\ call.done
  /\ CallNextKey \in DOMAIN call.table0.q
  /\ CallNextKey # CallKey
  /\ call.table0.q[CallNextKey] # 0
  /\ call.learning_rate = One
  /\ call.discount_factor = One
  /\ table.q[CallKey] = call.reward

\* C2: update_table writes the table exactly once, to (observation, action);
\* every other key keeps its presence and value, and save is not called.
C2_OneWrite ==
  call.op = "update_table" =>
    /\ table.writes = call.table0.writes + 1
    /\ table.saves = call.table0.saves
    /\ DOMAIN table.q = DOMAIN call.table0.q \cup {CallKey}
    /\ \A k \in DOMAIN table.q \ {CallKey} : table.q[k] = call.table0.q[k]

\* a non-terminal update whose next pair is another key, unknown before the
\* call and still unknown after it
C2_Witness ==
  /\ call.op = "update_table"
  /\ ~call.done
  /\ CallNextKey # CallKey
  /\ CallNextKey \notin DOMAIN call.table0.q
  /\ CallNextKey \notin DOMAIN table.q
  /\ CallKey \in DOMAIN table.q

\* the actions of [0, n) whose estimate (missing = 0) is the maximum
MaxActions(t, obs) ==
  {a \in Actions :
     \A b \in Actions : StoredOrZero(t, <<obs, b>>) <= StoredOrZero(t, <<obs, a>>)}

\* C3: with epsilon = 0 the actions get_action can return are exactly the
\* actions of [0, n) whose estimate (missing = 0) is the maximum over all n
\* actions; a returned action is one of them.
C3_Greedy ==
  /\ \A obs \in Observations :
       get_action(NumActions, table, obs, 0).actions = MaxActions(table, obs)
  /\ (call.op = "get_action" /\ call.epsilon = 0) =>
       call.result \in MaxActions(call.table0, call.observation)

\* every estimate of the observation is missing and the last action is returned
C3_Witness ==
  /\ call.op = "get_action"
  /\ call.epsilon = 0
  /\ \A a \in Actions : << call.observation, a >> \notin DOMAIN call.table0.q
  /\ call.result = NumActions - 1

\* C4: the table's not-found outcome never reaches the caller of get_action
\* or update_table: both complete normally on every table, get_action
\* returning an action of [0, n) and update_table writing a value.
C4_NotFoundHandled ==
  /\ call.op = "get_action" => ~call.raised /\ call.result \in Actions
  /\ call.op = "update_table" => ~call.raised /\ CallKey \in DOMAIN table.q

\* a non-terminal update on the empty table: both lookups miss
C4_Witness ==
  /\ call.op = "update_table"
  /\ DOMAIN call.table0.q = {}
  /\ ~call.done
  /\ ~call.raised
  /\ table.q[CallKey] = FMul(call.learning_rate, call.reward)
  /\ table.q[CallKey] # 0

IsSchedule == call.op \in {"get_epsilon", "get_learning_rate"}

\* C7 as stated: at progress 0 the schedules return start and at progress =
\* horizon they return end, exactly.
C7_ExactEnds ==
  IsSchedule =>
    /\ call.n = 0 => call.result = call.start
    /\ call.n = call.total => call.result = call.end

\* C7 amended: at progress 0 the schedules return start exactly; at progress
\* = horizon they return start - (start - end) as rounded by the arithmetic,
\* which is end whenever start - end is computed exactly and is otherwise no
\* further from end than twice the rounding error of start - end.
C7_RoundedEnds ==
  IsSchedule =>
    /\ call.n = 0 => call.result = call.start
    /\ call.n = call.total =>
         Abs(call.result - call.end) <=
           2 * Abs(FSub(call.start, call.end) - (call.start - call.end))

\* a call at progress = horizon whose difference start - end is rounded
C7_Witness ==
  /\ IsSchedule
  /\ call.n = call.total
  /\ ~Representable(call.start - call.end)
  /\ call.result # call.end

\* ------------------------------------------------ the evaluation loop
\* lines 153-156: test is entered with these arguments
NewFrame(total_number_of_episodes, eps) ==
  [pos |-> "for", total_number_of_episodes |-> total_number_of_episodes,
   epsilon |-> eps, episode_number |-> 0, observation |-> 0,
   total_rewards |-> 0]

\* the slip of closing the environment under the recorder as well
CloseThrough(env) == EnvClose(MonitorClose(env))

\* line 180: close() on the object test was given
CloseGiven(env) == IF env.monitor = "open" THEN MonitorClose(env) ELSE EnvClose(env)

\* the slip of returning the total instead of the average
total_reward_undivided(total_rewards, total_number_of_episodes) ==
  total_rewards

\* line 183
average_reward_of(total_rewards, total_number_of_episodes) ==
  FDivInt(total_rewards, total_number_of_episodes)

\* lines 156-159: the next episode of the round starts
TestEpisodeStart ==
  /\ tframe.pos = "for"
  /\ tframe.episode_number < tframe.total_number_of_episodes
  /\ \E obs \in Observations :
       tframe' = [tframe EXCEPT !.pos = "while", !.observation = obs]
  /\ testing_env' = EnvReset(testing_env)
  /\ UNCHANGED << pc, table, params, observation_number, episode_number,
                  observation, action, epsilon, learning_rate, step_result,
                  learning_env, average_reward, hist, call >>

\* lines 161-178: one step of an evaluation episode
TestStep ==
  /\ tframe.pos = "while"
  /\ LET r == get_action(NumActions, table, tframe.observation, tframe.epsilon)
     IN /\ ~r.raised
        /\ table' = r.table
        /\ \E a \in r.actions, nobs \in Observations,
              reward \in testing_env.rewards,
              done \in EnvDoneChoices(testing_env) :
             /\ testing_env' = EnvStep(testing_env, done)
             /\ tframe' =
                  [tframe EXCEPT
                     !.observation = nobs,
                     !.total_rewards = FAdd(tframe.total_rewards, reward),
                     !.pos = IF done THEN "for" ELSE "while",
                     !.episode_number =
                        IF done THEN tframe.episode_number + 1
                                ELSE tframe.episode_number]
             /\ hist' =
                  [hist EXCEPT
                     !.exact_sum = hist.exact_sum + reward,
                     !.rounded =
                        hist.rounded
                          \/ FAdd(tframe.total_rewards, reward)
                               # tframe.total_rewards + reward]
  /\ UNCHANGED << pc, params, observation_number, episode_number, observation,
                  action, epsilon, learning_rate, step_result, learning_env,
                  average_reward, call >>

\* lines 156, 180-184: the episodes are over; close and return the average
TestReturn ==
  /\ tframe.pos = "for"
  /\ tframe.episode_number >= tframe.total_number_of_episodes
  /\ testing_env' = CloseGiven(testing_env)
  /\ average_reward' =
       average_reward_of(tframe.total_rewards, tframe.total_number_of_episodes)
  /\ tframe' = [NoFrame EXCEPT
                  !.pos = "returned",
                  !.total_number_of_episodes = tframe.total_number_of_episodes]
  /\ pc' = IF pc = "test" THEN "tail" ELSE "returned"
  /\ UNCHANGED << table, params, observation_number, episode_number,
                  observation, action, epsilon, learning_rate, step_result,
                  learning_env, hist, call >>

\* tables a run starts from
SampleTables ==
  {t \in AllTables :
     \/ DOMAIN t.q = {}
     \/ /\ DOMAIN t.q = {k \in Keys : k[1] = k[2] % NumObs}
        /\ \A k \in DOMAIN t.q : t.q[k] = One}

\* test called on its own: any sample table, episode count and epsilon; the
\* environment gives any reward, or (rewards a singleton) a fixed one
TestInit ==
  /\ pc = "testing"
  /\ table \in SampleTables
  /\ \E E \in 1 .. MaxTestEpisodes, eps \in Rates : tframe = NewFrame(E, eps)
  /\ \E rs \in {Rewards} \cup {{r} : r \in Rewards} :
       testing_env = NewEnv(MaxTestEpLen, rs)
  /\ learning_env = NewEnv(MaxEpLen, Rewards)
  /\ call = NoCall
  /\ params = << >>
  /\ observation_number = 0
  /\ episode_number = 1
  /\ observation = 0
  /\ action = 0
  /\ epsilon = 0
  /\ learning_rate = 0
  /\ step_result = NoStep
  /\ average_reward = 0
  /\ hist = NoHist

TestNext == TestEpisodeStart \/ TestStep \/ TestReturn

SpecTest == TestInit /\ [][TestNext]_vars

\* ------------------------------------------- claims on the evaluation loop
TestReturned == tframe.pos = "returned"
FixedReward == Cardinality(testing_env.rewards) = 1
TheReward == CHOOSE r \in testing_env.rewards : TRUE

\* C6 as stated: test resets the environment E times, steps every episode
\* until done and returns the sum of the rewards divided by E; for a single
\* episode of L steps each with reward r it returns exactly L*r.
C6_ExactReturn ==
  (pc = "returned" /\ TestReturned) =>
    /\ testing_env.resets = tframe.total_number_of_episodes
    /\ testing_env.dones = tframe.total_number_of_episodes
    /\ ~testing_env.running
    /\ ~hist.rounded =>
         average_reward =
           RoundQ(hist.exact_sum, tframe.total_number_of_episodes)
    /\ (tframe.total_number_of_episodes = 1 /\ FixedReward) =>
         average_reward = FMul(testing_env.steps * One, TheReward)

\* C6 amended: test resets the environment E times, steps every episode
\* until done and returns the rewards accumulated step by step in floating
\* point, divided by E; when no accumulation is rounded this is the sum of
\* the rewards divided by E, and for a single episode of L steps each with
\* reward r it is then exactly L*r.
C6_RoundedReturn ==
  (pc = "returned" /\ TestReturned) =>
    /\ testing_env.resets = tframe.total_number_of_episodes
    /\ testing_env.dones = tframe.total_number_of_episodes
    /\ ~testing_env.running
    /\ ~hist.rounded =>
         average_reward =
           RoundQ(hist.exact_sum, tframe.total_number_of_episodes)
    /\ (tframe.total_number_of_episodes = 1 /\ FixedReward /\ ~hist.rounded) =>
         average_reward = testing_env.steps * TheReward

\* two episodes of a fixed non-zero reward, several steps, nothing rounded
C6_Witness ==
  /\ pc = "returned" /\ TestReturned
  /\ tframe.total_number_of_episodes = 2
  /\ testing_env.resets = 2
  /\ FixedReward /\ TheReward # 0
  /\ testing_env.steps >= 3
  /\ ~hist.rounded
  /\ 2 * average_reward = testing_env.steps * TheReward

\* ---------------------------------------------------- the training loop
\* the slip of stopping one observation early
budget_left_early(n, total_observations) == n + 1 < total_observations

\* line 238: the condition of the outer loop
budget_left(n, total_observations) == n < total_observations

\* the slip of testing the counter as it was before its increment
test_due_before_increment(n, test_interval) == (n - 1) % test_interval = 0

\* line 289
test_due(n, test_interval) == n % test_interval = 0

\* line 332
save_due(episode, table_saving_interval) == episode % table_saving_interval = 0

\* the arguments of a run of train
ParamSets ==
  [discount_factor : {One},
   start_learning_rate : {One},
   end_learning_rate : {Fl((3 * One) \div 8)},
   start_epsilon : {One},
   end_epsilon : {0},
   total_observations : 0 .. MaxTotal,
   test_interval : 1 .. MaxInterval,
   total_number_of_testing_episodes : 1 .. MaxTestEpisodes,
   table_saving_interval : 1 .. MaxInterval]

\* lines 220-236: train is entered
Init ==
  /\ pc = "loop"
  /\ table \in SampleTables
  /\ params \in ParamSets
  /\ observation_number = 0
  /\ episode_number = 1
  /\ observation = 0
  /\ action = 0
  /\ epsilon = 0
  /\ learning_rate = 0
  /\ step_result = NoStep
  /\ learning_env = MonitorWrap(NewEnv(MaxEpLen, {One}))
  /\ testing_env = NewEnv(MaxRoundEpLen, {One})
  /\ tframe = NoFrame
  /\ average_reward = 0
  /\ hist = NoHist
  /\ call = NoCall

\* lines 238-253: the budget is not exhausted; a learning episode starts
TrainEpisodeStart ==
  /\ pc = "loop"
  /\ budget_left(observation_number, params.total_observations)
  /\ learning_env' = EnvReset(learning_env)
  /\ pc' = "step"
  /\ UNCHANGED << params, observation_number, episode_number, learning_rate,
                  step_result, testing_env, tframe, average_reward, call >>
  /\ LET eps == get_epsilon(params.start_epsilon, params.end_epsilon,
                            observation_number, params.total_observations)
     IN /\ epsilon' = eps
        /\ \E obs \in Observations :
             LET r == get_action(NumActions, table, obs, eps)
             IN /\ ~r.raised
                /\ table' = r.table
                /\ observation' = obs
                /\ \E a \in r.actions :
                     /\ action' = a
                     /\ hist' = [hist EXCEPT
                                   !.eps_progress = observation_number,
                                   !.pending = << obs, a >>]

\* the slip of advancing the observation but not the action
advance_keeping_action(obs, a, next_observation, next_action) ==
  << next_observation, a >>

\* lines 284-285: the pair the next step acts on and updates
advance(obs, a, next_observation, next_action) ==
  << next_observation, next_action >>

\* the slip of incrementing the counter before the schedules are evaluated
progress_after_increment(n) == n + 1

\* lines 264, 275: the progress passed to get_epsilon and get_learning_rate
\* in a step is the counter as it stands before line 287 increments it
progress_of_step(n) == n

\* lines 259-316: one step of the learning episode, up to the counter's
\* increment and, when an evaluation round is due, the call of test
TrainStep ==
  /\ pc = "step"
  /\ observation_number' = observation_number + 1
  /\ IF test_due(observation_number + 1, params.test_interval)
       THEN /\ pc' = "test"
            /\ testing_env' = MonitorWrap(testing_env)
            /\ tframe' = NewFrame(params.total_number_of_testing_episodes, 0)
       ELSE /\ pc' = "tail"
            /\ UNCHANGED << testing_env, tframe >>
  /\ UNCHANGED << params, episode_number, average_reward, call >>
  /\ LET eps == get_epsilon(params.start_epsilon, params.end_epsilon,
                            progress_of_step(observation_number),
                            params.total_observations)
         lr == get_learning_rate(params.start_learning_rate,
                                 params.end_learning_rate,
                                 progress_of_step(observation_number),
                                 params.total_observations)
         due == test_due(observation_number + 1, params.test_interval)
     IN /\ epsilon' = eps
        /\ learning_rate' = lr
        /\ \E next_observation \in Observations,
              reward \in learning_env.rewards,
              done \in EnvDoneChoices(learning_env) :
             LET g == get_action(NumActions, table, next_observation, eps)
             IN /\ ~g.raised
                /\ step_result' =
                     [action |-> action, reward |-> reward, done |-> done]
                /\ learning_env' = EnvStep(learning_env, done)
                /\ \E next_action \in g.actions :
                     LET u == update_table(g.table, params.discount_factor,
                                           lr, observation, action, reward,
                                           done, next_observation, next_action)
                         adv == advance(observation, action,
                                        next_observation, next_action)
                     IN /\ ~u.raised
                        /\ table' = u.table
                        /\ observation' = adv[1]
                        /\ action' = adv[2]
                        /\ hist' =
                             [hist EXCEPT
                                !.eps_progress =
                                   progress_of_step(observation_number),
                                !.lr_progress =
                                   progress_of_step(observation_number),
                                !.pending =
                                   << next_observation, next_action >>,
                                !.rounds =
                                   IF due THEN hist.rounds + 1
                                                   ELSE hist.rounds,
                                !.exact_sum =
                                   IF due THEN 0 ELSE hist.exact_sum,
                                !.rounded =
                                   IF due THEN FALSE
                                                   ELSE hist.rounded]

\* the slip of counting an episode at every step
count_episode_every_step(episode, done) == episode + 1

\* lines 327-329: the episode counter after a step
count_episode(episode, done) == IF done THEN episode + 1 ELSE episode

\* lines 325-335: the rest of the step; a terminal step ends the episode
TrainStepEnd ==
  /\ pc = "tail"
  /\ episode_number' = count_episode(episode_number, step_result.done)
  /\ IF step_result.done
       THEN /\ table' = IF save_due(episode_number',
                                    params.table_saving_interval)
                          THEN save(table) ELSE table
            /\ pc' = "loop"
       ELSE /\ pc' = "step"
            /\ UNCHANGED table
  /\ UNCHANGED << params, observation_number, observation, action, epsilon,
                  learning_rate, step_result, learning_env, testing_env,
                  tframe, average_reward, hist, call >>

\* lines 238, 346-354: the budget is exhausted; close and return
TrainReturn ==
  /\ pc = "loop"
  /\ ~budget_left(observation_number, params.total_observations)
  /\ learning_env' = MonitorClose(learning_env)
  /\ testing_env' = EnvClose(testing_env)
  /\ pc' = "done"
  /\ UNCHANGED << table, params, observation_number, episode_number,
                  observation, action, epsilon, learning_rate, step_result,
                  tframe, average_reward, hist, call >>

Next ==
  \/ TrainEpisodeStart
  \/ TrainStep
  \/ TestEpisodeStart
  \/ TestStep
  \/ TestReturn
  \/ TrainStepEnd
  \/ TrainReturn

Spec == Init /\ [][Next]_vars

\* train runs on one thread: while it has not returned its next step is taken
SpecLive == Spec /\ WF_vars(Next)

\* ------------------------------------------- claims on the training loop
InRound == tframe.pos \in {"for", "while"}

\* C5: an evaluation round changes nothing of the learner: while test runs,
\* no step changes the table (no estimate is written or inserted, the table
\* is not saved), the observation counter, the episode counter, the learning
\* environment, or the pending observation and action of the learning episode.
C5_RoundChangesNothing ==
  [][InRound =>
       /\ table' = table
       /\ observation_number' = observation_number
       /\ episode_number' = episode_number
       /\ learning_env' = learning_env
       /\ observation' = observation
       /\ action' = action]_vars

\* a round has run in the middle of a learning episode, over a table in which
\* the estimates of the pending observation are still missing
C5_Witness ==
  /\ pc = "tail"
  /\ tframe.pos = "returned"
  /\ ~step_result.done
  /\ learning_env.running
  /\ testing_env.steps >= 2
  /\ \A o \in Observations, a \in Actions :
       o # 0 => <<o, a>> \notin DOMAIN table.q

\* C8: exhaustion of the observation budget is the only way train ends: at
\* the head of the outer loop a new learning episode starts exactly when the
\* observation counter is below total_observations and train returns
\* otherwise, so it returns only with the counter at or above
\* total_observations; and, every episode ending, train returns.
C8_BudgetEndsTrain ==
  /\ [][/\ pc = "loop" =>
             IF observation_number < params.total_observations
               THEN pc' = "step"
                    /\ learning_env'.resets = learning_env.resets + 1
               ELSE pc' = "done" /\ learning_env'.resets = learning_env.resets
        /\ pc # "loop" =>
             pc' # "done" /\ learning_env'.resets = learning_env.resets]_vars
  /\ [](pc = "done" => observation_number >= params.total_observations)
  /\ <>(pc = "done")

\* train has returned after two learning episodes, the second of which ran
\* past the budget
C8_Witness ==
  /\ pc = "done"
  /\ learning_env.resets = 2
  /\ observation_number > params.total_observations
  /\ hist.rounds >= 1

\* C9 as stated: every call train makes to get_epsilon and get_learning_rate
\* passes a progress value inside [0, horizon], so the exploration rate and
\* the learning rate used in training lie between their start and end values.
C9_ProgressInHorizon ==
  /\ hist.eps_progress # -1 =>
       /\ 0 <= hist.eps_progress
       /\ hist.eps_progress <= params.total_observations
       /\ params.end_epsilon <= epsilon /\ epsilon <= params.start_epsilon
  /\ hist.lr_progress # -1 =>
       /\ 0 <= hist.lr_progress
       /\ hist.lr_progress <= params.total_observations
       /\ params.end_learning_rate <= learning_rate
       /\ learning_rate <= params.start_learning_rate

\* C10: an evaluation round is run exactly at the steps whose post-increment
\* observation counter is a positive multiple of test_interval: with the
\* counter at N, floor(N / test_interval) rounds have been started; a round
\* runs with exploration probability 0 and total_number_of_testing_episodes
\* episodes on the testing environment, after the step's update of the table.
C10_RoundsAtInterval ==
  /\ hist.rounds = observation_number \div params.test_interval
  /\ (pc = "test") = InRound
  /\ pc = "test" =>
       /\ observation_number > 0
       /\ observation_number % params.test_interval = 0
       /\ tframe.epsilon = 0
       /\ tframe.total_number_of_episodes =
            params.total_number_of_testing_episodes
       /\ table.writes = observation_number
       /\ learning_env.steps = observation_number
  /\ pc \in {"loop", "step", "tail", "done"} =>
       /\ testing_env.resets =
            hist.rounds * params.total_number_of_testing_episodes
       /\ testing_env.dones = testing_env.resets

\* the second round of a run with test_interval 2 has returned
C10_Witness ==
  /\ pc = "tail"
  /\ tframe.pos = "returned"
  /\ params.test_interval = 2
  /\ params.total_number_of_testing_episodes = 2
  /\ observation_number = 4
  /\ hist.rounds = 2
  /\ testing_env.resets = 4

\* C11 as stated: during train the table is saved only at a terminal step of
\* a learning episode, and exactly at those terminal steps at which the
\* number of completed learning episodes is a positive multiple of
\* table_saving_interval.
C11_SaveAtCompletedMultiple ==
  [][IF /\ pc = "tail"
        /\ step_result.done
        /\ learning_env.dones > 0
        /\ learning_env.dones % params.table_saving_interval = 0
       THEN table'.saves = table.saves + 1
       ELSE table'.saves = table.saves]_vars

\* C12 as stated: during train the table is saved after every
\* table_saving_interval observations: whenever a step has been processed to
\* its end, save has been called once for each full table_saving_interval
\* observations processed so far.
C12_SaveEveryObservations ==
  pc \in {"loop", "step", "done"} =>
    table.saves = observation_number \div params.table_saving_interval

\* the schedules at the progress c of a run
EpsilonAt(c) ==
  get_epsilon(params.start_epsilon, params.end_epsilon, c,
              params.total_observations)
LearningRateAt(c) ==
  get_learning_rate(params.start_learning_rate, params.end_learning_rate, c,
                    params.total_observations)

\* C13: the training step that raises the observation counter from c to c+1
\* selects the next action with the epsilon of progress c and updates the
\* table with the learning rate of progress c; the first action of an episode
\* starting at counter c is selected with the epsilon of progress c, so the
\* first step of an episode selects with the epsilon the episode started with.
C13_PreIncrementProgress ==
  [][/\ pc = "step" =>
          /\ observation_number' = observation_number + 1
          /\ epsilon' = EpsilonAt(observation_number)
          /\ learning_rate' = LearningRateAt(observation_number)
          /\ hist'.eps_progress = observation_number
          /\ hist'.lr_progress = observation_number
          /\ action' \in get_action(NumActions, table, observation',
                                    EpsilonAt(observation_number)).actions
          /\ table' =
               update_table(table, params.discount_factor,
                            LearningRateAt(observation_number), observation,
                            action, step_result'.reward, step_result'.done,
                            observation', action').table
          /\ learning_env.t = 0 => epsilon' = epsilon
     /\ (pc = "loop" /\ pc' = "step") =>
          /\ observation_number' = observation_number
          /\ epsilon' = EpsilonAt(observation_number)
          /\ hist'.eps_progress = observation_number
          /\ action' \in get_action(NumActions, table, observation',
                                    EpsilonAt(observation_number)).actions]_vars

\* the step raising the counter from 1 to 2 of a horizon of 2 has used the
\* rates of progress 1, which differ from those of progress 0 and 2
C13_Witness ==
  /\ pc = "tail"
  /\ params.total_observations = 2
  /\ observation_number = 2
  /\ hist.eps_progress = 1
  /\ epsilon = EpsilonAt(1)
  /\ learning_rate = LearningRateAt(1)
  /\ EpsilonAt(1) \notin {EpsilonAt(0), EpsilonAt(2)}
  /\ LearningRateAt(1) \notin {LearningRateAt(0), LearningRateAt(2)}

\* C14: training is on-policy across consecutive steps: the action given to
\* the learning environment in a step and the pair updated by that step are
\* the pair selected last (the next observation and next action of the
\* preceding step's update, or the reset observation and first action of the
\* episode); the next action is selected over the table as it is before the
\* step's update and nothing re-selects it afterwards; after a terminal step
\* the first action of the new episode is selected afresh for the reset
\* observation.
C14_OnPolicyContinuity ==
  [][/\ pc = "step" =>
          /\ step_result'.action = hist.pending[2]
          /\ hist'.pending[2] \in
               get_action(NumActions, table, hist'.pending[1],
                          epsilon').actions
          /\ table' =
               update_table(table, params.discount_factor, learning_rate',
                            hist.pending[1], hist.pending[2],
                            step_result'.reward, step_result'.done,
                            hist'.pending[1], hist'.pending[2]).table
          /\ << observation', action' >> = hist'.pending
     /\ pc \in {"tail", "test"} =>
          /\ hist'.pending = hist.pending
          /\ << observation', action' >> = << observation, action >>
     /\ (pc = "loop" /\ pc' = "step") =>
          /\ learning_env'.resets = learning_env.resets + 1
          /\ hist'.pending = << observation', action' >>
          /\ action' \in get_action(NumActions, table, observation',
                                    epsilon').actions]_vars

\* the second step of an episode has given the environment the action its
\* first step selected, which differs from the one it selects for the third
C14_Witness ==
  /\ pc = "tail"
  /\ learning_env.resets = 1
  /\ learning_env.steps = 2
  /\ ~step_result.done
  /\ step_result.action # hist.pending[2]
  /\ << observation, action >> = hist.pending

Used(env, env2) == env2.resets # env.resets \/ env2.steps # env.steps

\* C16: when train returns, close has been called on the learning
\* environment (the recorder train put around it) and on the testing
\* environment, also when total_observations is 0; no environment object is
\* reset or stepped after close was called on it: every reset and step goes
\* through an open recorder to an environment that is not closed, although
\* every evaluation round ends with test closing the recorder it was given
\* and the next round runs on the same testing environment.
C16_EnvLifecycle ==
  /\ [](pc = "done" =>
          /\ learning_env.monitor = "closed"
          /\ testing_env.closed
          /\ params.total_observations = 0 =>
               learning_env.steps = 0 /\ learning_env.resets = 0)
  /\ [][/\ Used(learning_env, learning_env') =>
             learning_env.monitor = "open" /\ ~learning_env.closed
        /\ Used(testing_env, testing_env') =>
             testing_env.monitor = "open" /\ ~testing_env.closed
        /\ (pc = "test" /\ pc' = "tail") =>
             /\ testing_env.monitor = "open"
             /\ testing_env'.monitor = "closed"
             /\ ~testing_env'.closed
        /\ pc = "done" =>
             learning_env' = learning_env /\ testing_env' = testing_env]_vars

\* train has returned after two evaluation rounds on the testing environment
C16_Witness ==
  /\ pc = "done"
  /\ hist.rounds = 2
  /\ testing_env.resets >= 2
  /\ testing_env.closed
  /\ testing_env.monitor = "closed"
  /\ learning_env.monitor = "closed"
  /\ ~learning_env.closed

=============================================================================
